---- MODULE Spec2Model ----
(***************************************************************************)
(* Model of the exam / question backend in src/index.js over the tables    *)
(* of src/prisma/migrations/.../migration.sql.                             *)
(*                                                                         *)
(* Texts are sequences of one-character strings, so that substring search  *)
(* and case folding are computed and not assumed.  An optional request     *)
(* parameter is a sequence of length 0 (absent) or 1 (present).            *)
(***************************************************************************)
EXTENDS Integers, Sequences, FiniteSets, TLC

\* ------------------------------------------------------------------ bounds
MaxExams == 2       \* rows the Exam table may hold
MaxSerial == 2      \* values the Exam id sequence may deliver
MaxQuestions == 1   \* rows the Question table may hold
MaxClock == 2       \* readings the clock may advance to
MaxFiles == 2       \* files the uploads directory may hold

\* ------------------------------------------------------- program constants
DefaultPage == 1
DefaultLimit == 10
SentinelId == 0 - 1
AnswerLength == 4
ParseRadix == 10

\* ------------------------------------------------------------ input domains
None == << >>
Some(v) == << v >>

\* name, description, venue of the exams a client submits
ExamTexts ==
    { << <<"A", "b">>, <<"c">>, <<"c">> >>,
      << <<"c">>, <<"b", "A">>, <<"c">> >>,
      << <<"c">>, <<"c">>, <<"a">> >> }
ClientIds == { SentinelId, 1 }
FilterTexts == { << >>, <<"a">>, <<"a", "B">>, <<"d">> }
Filters == { None } \cup { Some(t) : t \in FilterTexts }
\* page and limit of a listing request
Pagings ==
    { <<None, None>>, <<Some(1), Some(1)>>, <<Some(2), Some(1)>>,
      <<Some(3), Some(1)>>, <<Some(1), Some(2)>>, <<Some(2), Some(2)>>,
      <<Some(2), None>> }
\* original names of uploaded files
OriginalNames ==
    { <<"a", ".", "p">>, <<"b", ".", "p">>, <<"a">>, <<"a", ".", "p", ".", "p">> }
Segments == { <<"1">>, <<"2">>, <<"-", "1">>, <<"1", "x">>, <<"x">> }

\* ------------------------------------------------------------------- texts
ToLower(c) ==
    CASE c = "A" -> "a"
      [] c = "B" -> "b"
      [] c = "C" -> "c"
      [] c = "D" -> "d"
      [] OTHER -> c

LowerText(t) == [i \in 1..Len(t) |-> ToLower(t[i])]

ContainsText(hay, needle) ==
    \E i \in 0..(Len(hay) - Len(needle)) :
        SubSeq(hay, i + 1, i + Len(needle)) = needle

\* prisma { contains: needle, mode: 'insensitive' }
ContainsInsensitive(hay, needle) ==
    ContainsText(LowerText(hay), LowerText(needle))

\* the OR of the three substring predicates
FilterMatches(e, f) ==
    \/ ContainsInsensitive(e.name, f)
    \/ ContainsInsensitive(e.description, f)
    \/ ContainsInsensitive(e.venue, f)

\* ------------------------------------------------------------------- state
VARIABLES
    exams,      \* the Exam table, in store order
    serial,     \* last value delivered by the Exam id sequence
    questions,  \* the Question table
    qserial,    \* last value delivered by the Question id sequence
    lst,        \* the GET /exams request in flight
    xls,        \* the GET /export/exams request in flight
    del,        \* the DELETE /exam/:id requests in flight, by connection
    issued,     \* ids returned by successful POST /exams so far
    last,       \* the response sent by the step just taken
    fault,      \* the call that threw in the step just taken
    adm,        \* the GET /admin request in flight
    disk,       \* names of the files in the uploads directory
    clock       \* the reading of Date.now()

vars ==
    << exams, serial, questions, qserial, lst, xls, del, issued, last, fault,
       adm, disk, clock >>

\* what the exam and question handlers never touch
side == << adm, disk, clock >>

Idle == [pc |-> "idle"]
NoResponse == [kind |-> "none"]
NoFault == "none"

\* connections on which a DELETE request may be in flight
DelSlots == { 1, 2 }

Quiet ==
    /\ lst.pc = "idle"
    /\ xls.pc = "idle"
    /\ \A s \in DelSlots : del[s].pc = "idle"
    /\ adm.pc # "register"

Init ==
    /\ exams = << >>
    /\ serial = 0
    /\ questions = << >>
    /\ qserial = 0
    /\ lst = Idle
    /\ xls = Idle
    /\ del = [s \in DelSlots |-> Idle]
    /\ issued = {}
    /\ last = NoResponse
    /\ fault = NoFault
    /\ adm = Idle
    /\ disk = {}
    /\ clock = 0

\* ------------------------------------------------------------ store queries
WhereAll == [kind |-> "all"]
WhereOr(f) == [kind |-> "or", text |-> f]
WhereIdIn(S) == [kind |-> "in", ids |-> S]
WhereIdIs(n) == [kind |-> "eq", id |-> n]

WhereHolds(w, e) ==
    CASE w.kind = "all" -> TRUE
      [] w.kind = "or" -> FilterMatches(e, w.text)
      [] w.kind = "in" -> e.id \in w.ids
      [] w.kind = "eq" -> e.id = w.id

Min(a, b) == IF a <= b THEN a ELSE b

\* a read that stops after the first matching row
FindManyFirstOnly(rows, w) ==
    LET m == SelectSeq(rows, LAMBDA e : WhereHolds(w, e))
    IN  SubSeq(m, 1, Min(1, Len(m)))

\* prisma.exam.findMany({ where })
FindMany(rows, w) == SelectSeq(rows, LAMBDA e : WhereHolds(w, e))

\* a paged read that drops the where clause
FindManyPagedUnfiltered(rows, w, skip, take) ==
    SubSeq(rows, skip + 1, Min(skip + take, Len(rows)))

\* a paged read that takes the first records whatever skip says
FindManyPagedNoSkip(rows, w, skip, take) ==
    LET m == FindMany(rows, w)
    IN  SubSeq(m, 1, Min(take, Len(m)))

\* prisma.exam.findMany({ skip, take, where })
FindManyPaged(rows, w, skip, take) ==
    LET m == FindMany(rows, w)
    IN  SubSeq(m, skip + 1, Min(skip + take, Len(m)))

\* prisma.exam.count({ where })
CountWhere(rows, w) == Len(FindMany(rows, w))

Ids(rows) == { rows[i].id : i \in 1..Len(rows) }

\* if (filter): a present, non-empty string
Truthy(filter) == filter # None /\ filter[1] # << >>

\* the where clause built from the filter text by the listing and the
\* spreadsheet export
ResolveFilter(rows, filter) ==
    IF Truthy(filter)
    THEN LET examMatches == FindMany(rows, WhereOr(filter[1]))
         IN  IF Len(examMatches) > 0
             THEN WhereIdIn(Ids(examMatches))
             ELSE WhereIdIs(SentinelId)
    ELSE WhereAll

\* the where clause built from the filter text by the CSV export
DirectFilter(filter) ==
    IF Truthy(filter) THEN WhereOr(filter[1]) ELSE WhereAll

\* ------------------------------------------------------------- POST /exams
\* request bodies: an exam with or without an id of the client's choosing,
\* one lacking a required column and one carrying an unknown key
ExamBodies ==
    { [id |-> i, name |-> Some(t[1]), description |-> Some(t[2]),
       venue |-> Some(t[3]), time |-> Some("t"), duration |-> Some(1),
       extra |-> FALSE] :
        i \in { None } \cup { Some(c) : c \in ClientIds }, t \in ExamTexts }
    \cup
    { [id |-> None, name |-> Some(<<"c">>), description |-> Some(<<"c">>),
       venue |-> v, time |-> Some("t"), duration |-> Some(1), extra |-> x] :
        v \in { None, Some(<<"a">>) }, x \in BOOLEAN }

\* the columns of table "Exam": all NOT NULL, id defaulting to the sequence
ExamDataValid(body) ==
    /\ body.name # None
    /\ body.description # None
    /\ body.venue # None
    /\ body.time # None
    /\ body.duration # None
    /\ ~body.extra

ExamRow(id, body) ==
    [id |-> id, name |-> body.name[1], description |-> body.description[1],
     venue |-> body.venue[1], time |-> body.time[1],
     duration |-> body.duration[1]]

\* prisma.exam.create({ data: req.body }) and the response
CreateExam(body) ==
    /\ body.id = None => serial < MaxSerial
    /\ UNCHANGED << questions, qserial, lst, xls, del >>
    /\ UNCHANGED side
    /\ fault' = NoFault
    /\ IF ~ExamDataValid(body)
       THEN /\ last' = [kind |-> "create", status |-> 500, body |-> body,
                        shape |-> "error"]
            /\ UNCHANGED << exams, serial, issued >>
       ELSE LET id == IF body.id = None THEN serial + 1 ELSE body.id[1]
            IN  /\ serial' = IF body.id = None THEN serial + 1 ELSE serial
                /\ IF id \in Ids(exams)
                   THEN /\ last' = [kind |-> "create", status |-> 500,
                                    body |-> body, shape |-> "error"]
                        /\ UNCHANGED << exams, issued >>
                   ELSE /\ Len(exams) < MaxExams
                        /\ exams' = Append(exams, ExamRow(id, body))
                        /\ issued' = issued \cup { id }
                        /\ last' = [kind |-> "create", status |-> 200,
                                    body |-> body, exam |-> ExamRow(id, body)]

\* -------------------------------------------------------- DELETE /exam/:id
DigitValue(c) ==
    CASE c = "0" -> 0 [] c = "1" -> 1 [] c = "2" -> 2 [] c = "3" -> 3
      [] c = "4" -> 4 [] c = "5" -> 5 [] c = "6" -> 6 [] c = "7" -> 7
      [] c = "8" -> 8 [] c = "9" -> 9 [] OTHER -> 0 - 1

RECURSIVE DigitRun(_, _)
\* length of the run of digits of s that starts at position i
DigitRun(s, i) ==
    IF i <= Len(s) /\ DigitValue(s[i]) >= 0 THEN 1 + DigitRun(s, i + 1) ELSE 0

RECURSIVE DigitsValue(_, _, _)
DigitsValue(s, i, n) ==
    IF n = 0 THEN 0
    ELSE DigitsValue(s, i, n - 1) * ParseRadix + DigitValue(s[i + n - 1])

\* parseInt(id, 10): an optional sign, then the leading digits; NaN without
NaN == [nan |-> TRUE, val |-> 0]
ParseInt(s) ==
    LET neg == Len(s) > 0 /\ s[1] = "-"
        first == IF neg THEN 2 ELSE 1
        n == DigitRun(s, first)
        v == DigitsValue(s, first, n)
    IN  IF n = 0 THEN NaN
        ELSE [nan |-> FALSE, val |-> IF neg THEN 0 - v ELSE v]

\* a delete that removes the oldest row whatever the id
RemoveOldest(rows, id) == Tail(rows)

RemoveId(rows, id) == SelectSeq(rows, LAMBDA e : e.id # id)

\* the request up to the response of prisma.exam.findUnique
DeleteExamFind(s, seg) ==
    /\ del[s].pc = "idle"
    /\ UNCHANGED << exams, serial, questions, qserial, lst, xls, issued >>
    /\ UNCHANGED side
    /\ fault' = NoFault
    /\ LET id == ParseInt(seg)
       IN  IF id.nan
           THEN /\ last' = [kind |-> "delete", status |-> 500, seg |-> seg,
                            shape |-> "message"]
                /\ del' = del
           ELSE IF id.val \notin Ids(exams)
           THEN /\ last' = [kind |-> "delete", status |-> 404, seg |-> seg,
                            shape |-> "message"]
                /\ del' = del
           ELSE /\ last' = NoResponse
                /\ del' = [del EXCEPT ![s] = [pc |-> "found", seg |-> seg]]

\* prisma.exam.delete and the response
DeleteExamRemove(s) ==
    /\ del[s].pc = "found"
    /\ UNCHANGED << serial, questions, qserial, lst, xls, issued >>
    /\ UNCHANGED side
    /\ fault' = NoFault
    /\ del' = [del EXCEPT ![s] = Idle]
    /\ LET id == ParseInt(del[s].seg)
       IN  IF id.val \in Ids(exams)
           THEN /\ exams' = RemoveId(exams, id.val)
                /\ last' = [kind |-> "delete", status |-> 200,
                            seg |-> del[s].seg]
           ELSE \* the record to delete does not exist: the call throws
                /\ exams' = exams
                /\ last' = [kind |-> "delete", status |-> 500,
                            seg |-> del[s].seg, shape |-> "message"]

\* -------------------------------------------------------------- GET /exams
PageNumber(page) == IF page = None THEN DefaultPage ELSE page[1]
PageSize(limit) == IF limit = None THEN DefaultLimit ELSE limit[1]
Skip(page, limit) == (PageNumber(page) - 1) * PageSize(limit)

\* Math.ceil(a / b) for a >= 0 and b >= 1
Ceil(a, b) == IF a % b = 0 THEN a \div b ELSE (a \div b) + 1

\* the request up to the where clause (one store read when a filter is given)
GetExams(filter, page, limit) ==
    /\ lst.pc = "idle"
    /\ lst' = [pc |-> "page", filter |-> filter, page |-> page,
               limit |-> limit, where |-> ResolveFilter(exams, filter)]
    /\ last' = NoResponse
    /\ UNCHANGED << exams, serial, questions, qserial, xls, del, issued >>
    /\ UNCHANGED side
    /\ fault' = NoFault

\* prisma.exam.findMany({ skip, take, where })
GetExamsPage ==
    /\ lst.pc = "page"
    /\ lst' = [lst EXCEPT !.pc = "count"] @@
              [items |-> FindManyPaged(exams, lst.where,
                                       Skip(lst.page, lst.limit),
                                       PageSize(lst.limit))]
    /\ last' = NoResponse
    /\ UNCHANGED << exams, serial, questions, qserial, xls, del, issued >>
    /\ UNCHANGED side
    /\ fault' = NoFault

\* prisma.exam.count({ where }) and res.json
GetExamsCount ==
    /\ lst.pc = "count"
    /\ LET totalExams == CountWhere(exams, lst.where)
       IN  last' = [kind |-> "list", status |-> 200,
                    filter |-> lst.filter, page |-> lst.page,
                    limit |-> lst.limit, items |-> lst.items,
                    totalRecords |-> totalExams,
                    totalPages |-> Ceil(totalExams, PageSize(lst.limit)),
                    currentPage |-> PageNumber(lst.page)]
    /\ lst' = Idle
    /\ UNCHANGED << exams, serial, questions, qserial, xls, del, issued >>
    /\ UNCHANGED side
    /\ fault' = NoFault

\* -------------------------------------------------------- GET /export/exams
\* worksheet.columns: the keys a row of the sheet is built from
SheetRow(e) ==
    [id |-> e.id, name |-> e.name, description |-> e.description,
     venue |-> e.venue]

SheetRows(rows) == [i \in 1..Len(rows) |-> SheetRow(rows[i])]

ExportExams(filter) ==
    /\ xls.pc = "idle"
    /\ xls' = [pc |-> "rows", filter |-> filter,
               where |-> ResolveFilter(exams, filter)]
    /\ last' = NoResponse
    /\ UNCHANGED << exams, serial, questions, qserial, lst, del, issued >>
    /\ UNCHANGED side
    /\ fault' = NoFault

\* prisma.exam.findMany({ where }), worksheet.addRows and the download
ExportExamsWrite ==
    /\ xls.pc = "rows"
    /\ last' = [kind |-> "xlsx", status |-> 200, filter |-> xls.filter,
                rows |-> SheetRows(FindMany(exams, xls.where))]
    /\ xls' = Idle
    /\ UNCHANGED << exams, serial, questions, qserial, lst, del, issued >>
    /\ UNCHANGED side
    /\ fault' = NoFault

\* ---------------------------------------------------- GET /export/exams/csv
\* the data rows of Papa.unparse(exams)
CsvRows(rows, filter) == FindMany(rows, DirectFilter(filter))

\* an export that removes what it exports
ExportExamsCsvPurging(filter) ==
    /\ last' = [kind |-> "csv", status |-> 200, filter |-> filter,
                rows |-> CsvRows(exams, filter)]
    /\ exams' = SelectSeq(exams,
                          LAMBDA e : ~WhereHolds(DirectFilter(filter), e))
    /\ UNCHANGED << serial, questions, qserial, lst, xls, del, issued >>
    /\ UNCHANGED side
    /\ fault' = NoFault

ExportExamsCsv(filter) ==
    /\ last' = [kind |-> "csv", status |-> 200, filter |-> filter,
                rows |-> CsvRows(exams, filter)]
    /\ UNCHANGED << exams, serial, questions, qserial, lst, xls, del, issued >>
    /\ UNCHANGED side
    /\ fault' = NoFault

\* ----------------------------------------------------------- POST /question
Option(n, c) == [null |-> FALSE, name |-> n, content |-> c]
Good(n) == Option(Some(<<n>>), Some(<<"x">>))
NoContent == Option(Some(<<"A">>), None)
EmptyName == Option(Some(<< >>), Some(<<"x">>))
NullOption == [null |-> TRUE, name |-> None, content |-> None]

Array(items) == Some([array |-> TRUE, items |-> items])
NotArray == Some([array |-> FALSE, items |-> << >>])

Answers ==
    { None, NotArray,
      Array(<<Good("A"), Good("B"), Good("C")>>),
      Array(<<Good("A"), Good("B"), Good("C"), Good("D")>>),
      Array(<<Good("D"), Good("C"), Good("B"), Good("A")>>),
      Array(<<Good("A"), Good("B"), NoContent, Good("D")>>),
      Array(<<EmptyName, Good("B"), Good("C"), Good("D")>>),
      Array(<<Good("A"), NullOption, Good("C"), Good("D")>>),
      Array(<<NoContent, Good("B"), Good("C"), NullOption>>),
      Array(<<Good("A"), Good("B"), Good("C"), Good("D"), Good("E")>>) }

QuestionBodies ==
    { [title |-> t, content |-> Some(<<"q">>), answer |-> a,
       correctAnswer |-> c] :
        t \in { None, Some(<<"t">>) }, a \in Answers,
        c \in { None, Some(<<"A">>), Some(<<"Z">>) } }

\* the columns of table "Question"
QuestionColumns == { "id", "title", "content", "answer" }
QuestionRequired == { "title", "content", "answer" }

\* the keys of the data object that carry a value
DataKeys(body) ==
    { k \in { "title", "content", "answer", "correctAnswer" } :
        body[k] # None }

\* !option.name || !option.content
OptionRejected(option) == ~Truthy(option.name) \/ ~Truthy(option.content)

\* the position at which the loop over the options stops, 0 when it runs
\* to the end
FirstStop(items) ==
    LET stops == { i \in 1..Len(items) :
                     items[i].null \/ OptionRejected(items[i]) }
    IN  IF stops = {} THEN 0
        ELSE CHOOSE i \in stops : \A j \in stops : i <= j

QuestionResponse(status, body) ==
    IF status = 201
    THEN [kind |-> "question", status |-> status, body |-> body]
    ELSE [kind |-> "question", status |-> status, body |-> body,
          shape |-> "error"]

CreateQuestion(body) ==
    /\ UNCHANGED << exams, serial, lst, xls, del, issued >>
    /\ UNCHANGED side
    /\ fault' = NoFault
    /\ IF \/ body.answer = None
          \/ ~body.answer[1].array
          \/ Len(body.answer[1].items) # AnswerLength
       THEN /\ last' = QuestionResponse(400, body)
            /\ UNCHANGED << questions, qserial >>
       ELSE LET items == body.answer[1].items
                stop == FirstStop(items)
            IN  IF stop # 0
                THEN \* reading a property of null throws
                     /\ last' = QuestionResponse(
                                    IF items[stop].null THEN 500 ELSE 400,
                                    body)
                     /\ UNCHANGED << questions, qserial >>
                ELSE IF \/ ~(DataKeys(body) \subseteq QuestionColumns)
                        \/ ~(QuestionRequired \subseteq DataKeys(body))
                THEN /\ last' = QuestionResponse(500, body)
                     /\ UNCHANGED << questions, qserial >>
                ELSE LET row == [id |-> qserial + 1,
                                 title |-> body.title[1],
                                 content |-> body.content[1],
                                 answer |-> items]
                     IN  /\ Len(questions) < MaxQuestions
                         /\ questions' = Append(questions, row)
                         /\ qserial' = qserial + 1
                         /\ last' = QuestionResponse(201, body) @@
                                    [question |-> row]

\* ------------------------------------------------- a store call that throws
\* The catch block of the handler answers 500 and the request is over; no
\* table is touched.
Caught(kind, shape) ==
    /\ last' = [kind |-> kind, status |-> 500, shape |-> shape]
    /\ fault' = "store"
    /\ UNCHANGED << exams, serial, questions, qserial, issued, side >>

\* prisma.exam.create throws
CreateExamFails(body) ==
    /\ ExamDataValid(body)
    /\ Caught("create", "error")
    /\ UNCHANGED << lst, xls, del >>

\* prisma.exam.findUnique throws
DeleteExamFindFails(s, seg) ==
    /\ del[s].pc = "idle"
    /\ ~ParseInt(seg).nan
    /\ Caught("delete", "message")
    /\ UNCHANGED << lst, xls, del >>

\* prisma.exam.delete throws
DeleteExamRemoveFails(s) ==
    /\ del[s].pc = "found"
    /\ Caught("delete", "message")
    /\ del' = [del EXCEPT ![s] = Idle]
    /\ UNCHANGED << lst, xls >>

\* the read that resolves the filter throws
GetExamsFails(filter) ==
    /\ lst.pc = "idle"
    /\ Truthy(filter)
    /\ Caught("list", "error")
    /\ UNCHANGED << lst, xls, del >>

\* the paged read or the count throws
GetExamsReadFails ==
    /\ lst.pc \in { "page", "count" }
    /\ Caught("list", "error")
    /\ lst' = Idle
    /\ UNCHANGED << xls, del >>

ExportExamsFails(filter) ==
    /\ xls.pc = "idle"
    /\ Truthy(filter)
    /\ Caught("xlsx", "error")
    /\ UNCHANGED << lst, xls, del >>

ExportExamsWriteFails ==
    /\ xls.pc = "rows"
    /\ Caught("xlsx", "error")
    /\ xls' = Idle
    /\ UNCHANGED << lst, del >>

ExportExamsCsvFails ==
    /\ Caught("csv", "error")
    /\ UNCHANGED << lst, xls, del >>

\* prisma.question.create throws, the answer having passed validation
CreateQuestionFails(body) ==
    /\ body.answer # None
    /\ body.answer[1].array
    /\ Len(body.answer[1].items) = AnswerLength
    /\ FirstStop(body.answer[1].items) = 0
    /\ Caught("question", "error")
    /\ UNCHANGED << lst, xls, del >>

\* --------------------------------------------------------------- GET /admin
\* The handler has no try/catch: a rejected call rejects the handler's
\* promise, which the router does not observe, and no response is sent.
Hung == [pc |-> "hung"]

\* getAccessToken() resolves
AdminToken ==
    /\ adm.pc = "idle"
    /\ adm' = [pc |-> "register"]
    /\ last' = NoResponse
    /\ fault' = NoFault
    /\ UNCHANGED << exams, serial, questions, qserial, lst, xls, del, issued,
                    disk, clock >>

\* getAccessToken() rejects
AdminTokenFails ==
    /\ adm.pc = "idle"
    /\ adm' = Hung
    /\ last' = NoResponse
    /\ fault' = "identity"
    /\ UNCHANGED << exams, serial, questions, qserial, lst, xls, del, issued,
                    disk, clock >>

\* registerUser(token) resolves and res.status(200).json(registerResp)
\* serialises the client's response object, or throws on it
AdminRegister ==
    /\ adm.pc = "register"
    /\ \/ adm' = Idle /\ last' = [kind |-> "admin", status |-> 200]
       \/ adm' = Hung /\ last' = NoResponse
    /\ fault' = NoFault
    /\ UNCHANGED << exams, serial, questions, qserial, lst, xls, del, issued,
                    disk, clock >>

\* registerUser(token) rejects
AdminRegisterFails ==
    /\ adm.pc = "register"
    /\ adm' = Hung
    /\ last' = NoResponse
    /\ fault' = "identity"
    /\ UNCHANGED << exams, serial, questions, qserial, lst, xls, del, issued,
                    disk, clock >>

\* ------------------------------------------------------ POST /upload-image
\* path.extname(name): from the last dot to the end, empty when there is no
\* dot or the only dot leads the name
ExtName(name) ==
    LET dots == { i \in 1..Len(name) : name[i] = "." }
    IN  IF dots = {} THEN << >>
        ELSE LET d == CHOOSE i \in dots : \A j \in dots : j <= i
             IN  IF d = 1 THEN << >> ELSE SubSeq(name, d, Len(name))

\* name.replace(pat, ""): the first occurrence of pat removed
RemoveFirst(name, pat) ==
    LET at == { i \in 1..(Len(name) - Len(pat) + 1) :
                  SubSeq(name, i, i + Len(pat) - 1) = pat }
    IN  IF pat = << >> \/ at = {} THEN name
        ELSE LET i == CHOOSE k \in at : \A j \in at : k <= j
             IN  SubSeq(name, 1, i - 1) \o SubSeq(name, i + Len(pat), Len(name))

DigitChar(d) ==
    CASE d = 0 -> "0" [] d = 1 -> "1" [] d = 2 -> "2" [] d = 3 -> "3"
      [] d = 4 -> "4" [] d = 5 -> "5" [] d = 6 -> "6" [] d = 7 -> "7"
      [] d = 8 -> "8" [] d = 9 -> "9"

RECURSIVE Decimal(_)
\* `${n}` for n >= 0
Decimal(n) ==
    IF n < ParseRadix THEN << DigitChar(n) >>
    ELSE Decimal(n \div ParseRadix) \o << DigitChar(n % ParseRadix) >>

\* the filename callback of the disk storage
FileName(originalname, now) ==
    LET fileExt == ExtName(originalname)
    IN  RemoveFirst(originalname, fileExt) \o <<"-">> \o Decimal(now)
        \o fileExt

Url(filename) == <<"http://localhost:3000/uploads/">> \o filename

\* upload.single("image") and the handler; file is None when the request
\* carries no file under the field
UploadImage(file) ==
    /\ UNCHANGED << exams, serial, questions, qserial, lst, xls, del, issued,
                    adm, clock >>
    /\ fault' = NoFault
    /\ IF file = None
       THEN /\ last' = [kind |-> "upload", status |-> 400, shape |-> "text"]
            /\ disk' = disk
       ELSE LET filename == FileName(file[1], clock)
            IN  /\ filename \in disk \/ Cardinality(disk) < MaxFiles
                /\ disk' = disk \cup { filename }
                /\ last' = [kind |-> "upload", status |-> 200,
                            filename |-> filename, url |-> Url(filename)]

\* time passes
Tick ==
    /\ clock < MaxClock
    /\ clock' = clock + 1
    /\ last' = NoResponse
    /\ fault' = NoFault
    /\ UNCHANGED << exams, serial, questions, qserial, lst, xls, del, issued,
                    adm, disk >>

\* ------------------------------------------------------------ specification
\* Requests served one at a time: no request arrives while another is in
\* flight.  The exam endpoints and the question endpoint share no table.
Next ==
    \/ \E body \in ExamBodies : Quiet /\ CreateExam(body)
    \/ \E seg \in Segments : Quiet /\ DeleteExamFind(1, seg)
    \/ DeleteExamRemove(1)
    \/ \E filter \in Filters, paging \in Pagings :
           Quiet /\ GetExams(filter, paging[1], paging[2])
    \/ GetExamsPage
    \/ GetExamsCount
    \/ \E filter \in Filters : Quiet /\ ExportExams(filter)
    \/ ExportExamsWrite
    \/ \E filter \in Filters : Quiet /\ ExportExamsCsv(filter)

Spec == Init /\ [][Next]_vars

NextQuestion == \E body \in QuestionBodies : CreateQuestion(body)

SpecQuestion == Init /\ [][NextQuestion]_vars

\* The exam endpoints and GET /admin, one request at a time, with a store
\* and an identity provider that may fail at any call.
NextFail ==
    \/ Next
    \/ \E body \in ExamBodies : Quiet /\ CreateExamFails(body)
    \/ \E seg \in Segments : Quiet /\ DeleteExamFindFails(1, seg)
    \/ DeleteExamRemoveFails(1)
    \/ \E filter \in Filters : Quiet /\ GetExamsFails(filter)
    \/ GetExamsReadFails
    \/ \E filter \in Filters : Quiet /\ ExportExamsFails(filter)
    \/ ExportExamsWriteFails
    \/ Quiet /\ ExportExamsCsvFails
    \/ Quiet /\ AdminToken
    \/ Quiet /\ AdminTokenFails
    \/ AdminRegister
    \/ AdminRegisterFails

SpecFail == Init /\ [][NextFail]_vars

NextQuestionFail ==
    \/ NextQuestion
    \/ \E body \in QuestionBodies : CreateQuestionFails(body)

SpecQuestionFail == Init /\ [][NextQuestionFail]_vars

\* The upload endpoint and the clock.
NextUpload ==
    \/ \E file \in { None } \cup { Some(n) : n \in OriginalNames } :
           UploadImage(file)
    \/ Tick

SpecUpload == Init /\ [][NextUpload]_vars

\* The listing, creation and deletion of exams with their store calls
\* interleaved: a request may arrive and a request in flight may take its
\* next store call at any time.  The store is available throughout.
ConcFilters == { Some(<<"a", "B">>), Some(<<"d">>) }
ConcPagings ==
    { <<None, None>>, <<Some(1), Some(1)>>, <<Some(2), Some(1)>> }
ConcSegments == { <<"1">>, <<"2">> }
ConcBodies ==
    { body \in ExamBodies :
        /\ ExamDataValid(body)
        /\ body.id \in { None, Some(1) }
        /\ body.venue = Some(<<"c">>) }

NextConc ==
    \/ \E body \in ConcBodies : CreateExam(body)
    \/ \E s \in DelSlots, seg \in ConcSegments : DeleteExamFind(s, seg)
    \/ \E s \in DelSlots : DeleteExamRemove(s)
    \/ \E filter \in ConcFilters, paging \in ConcPagings :
           GetExams(filter, paging[1], paging[2])
    \/ GetExamsPage
    \/ GetExamsCount

SpecConc == Init /\ [][NextConc]_vars

\* ================================================================== claims
\* what the claims mean by an exam matching a filter text: some position of
\* its name, description or venue at which the text occurs, letter case
\* disregarded
OccursAt(field, f, i) ==
    /\ i + Len(f) - 1 <= Len(field)
    /\ \A k \in 1..Len(f) : ToLower(field[i + k - 1]) = ToLower(f[k])

ExamMatches(e, f) ==
    \E field \in { e.name, e.description, e.venue } :
        \E i \in 1..(Len(field) + 1) : OccursAt(field, f, i)

\* the exams a filter parameter selects: all of them when it is absent or
\* empty
Selected(e, filter) ==
    IF filter = None \/ filter[1] = << >> THEN TRUE
    ELSE ExamMatches(e, filter[1])

SelectedExams(filter) == SelectSeq(exams, LAMBDA e : Selected(e, filter))

Range(seq) == { seq[i] : i \in 1..Len(seq) }

\* C1: a listing with a non-empty filter text and a page that holds every
\* match returns exactly the stored exams that match the text.
C1_ListIsMatchSet ==
    ( /\ last.kind = "list"
      /\ Truthy(last.filter)
      /\ PageNumber(last.page) = 1
      /\ PageSize(last.limit) >= Len(exams) )
    => Range(last.items) = Range(SelectedExams(last.filter))

\* C2: a non-empty filter text that matches no stored exam yields an empty
\* listing with totalRecords 0 and an export without data rows, never an
\* error.
C2_NoMatchIsEmpty ==
    ( /\ last.kind \in { "list", "xlsx" }
      /\ Truthy(last.filter)
      /\ SelectedExams(last.filter) = << >> )
    => /\ last.status = 200
       /\ last.kind = "list" => last.items = << >> /\ last.totalRecords = 0
       /\ last.kind = "xlsx" => last.rows = << >>

\* C3: the items of a listing are the elements (page-1)*limit+1 through
\* min(page*limit, total) of the selected exams in store order.
C3_PageIsSlice ==
    last.kind = "list"
    => LET sel == SelectedExams(last.filter)
           p == PageNumber(last.page)
           l == PageSize(last.limit)
       IN  last.items = SubSeq(sel, (p - 1) * l + 1, Min(p * l, Len(sel)))

\* C4: the meta of a listing has totalRecords = number of selected exams,
\* totalPages = ceil(totalRecords / limit) and currentPage = the page asked
\* for, with page 1 and limit 10 when omitted.
C4_Meta ==
    last.kind = "list"
    => LET l == IF last.limit = None THEN 10 ELSE last.limit[1]
           p == IF last.page = None THEN 1 ELSE last.page[1]
       IN  /\ last.totalRecords = Len(SelectedExams(last.filter))
           /\ last.totalPages * l >= last.totalRecords
           /\ (last.totalPages - 1) * l < last.totalRecords
           /\ last.totalPages >= 0
           /\ last.currentPage = p

\* C5: both exports hold one row for every exam the filter selects, however
\* many there are: no pagination.
C5_ExportsHoldEveryMatch ==
    last.kind \in { "xlsx", "csv" }
    => /\ last.status = 200
       /\ \A i \in 1..Len(exams) :
              Selected(exams[i], last.filter)
              => Cardinality({ j \in 1..Len(last.rows) :
                                 last.rows[j].id = exams[i].id }) = 1

C5_Witness ==
    /\ last.kind = "xlsx"
    /\ Truthy(last.filter)
    /\ Len(SelectedExams(last.filter)) >= 2
    /\ Len(last.rows) >= 2

\* C6: on the same store and filter, the spreadsheet export and the CSV
\* export hold rows for the same set of exam ids.
C6_ExportsAgree ==
    last.kind = "xlsx"
    => { last.rows[j].id : j \in 1..Len(last.rows) }
       = Ids(CsvRows(exams, last.filter))

\* C7: the identifier in a successful POST /exams response differs from the
\* identifier of every earlier successful creation, deleted or not.
C7_FreshIdentifier ==
    [][ (last'.kind = "create" /\ last'.status = 200)
        => last'.exam.id \notin issued ]_vars

\* C8: a DELETE of an id no exam has answers 404 and changes no table; a
\* DELETE of an id an exam has answers 200 and removes that row and no
\* other; a listing returns only rows that are in the table, so none that
\* was deleted.
C8_DeleteStep ==
    (last'.kind = "delete" /\ ~ParseInt(last'.seg).nan)
    => LET id == ParseInt(last'.seg).val
       IN  /\ questions' = questions
           /\ IF id \notin Ids(exams)
              THEN last'.status = 404 /\ exams' = exams
              ELSE /\ last'.status = 200
                   /\ \E k \in 1..Len(exams) :
                          /\ exams[k].id = id
                          /\ exams' = SubSeq(exams, 1, k - 1)
                                      \o SubSeq(exams, k + 1, Len(exams))
                   /\ id \notin Ids(exams')

C8_DeleteFrame ==
    /\ [][C8_DeleteStep]_vars
    /\ [](last.kind = "list" => Range(last.items) \subseteq Range(exams))

C8_Witness ==
    /\ last.kind = "delete"
    /\ last.status = 200
    /\ Len(exams) >= 1

\* what claims C9 and C10 mean by an answer of 4 well-formed options
WellFormedAnswer(answer) ==
    /\ answer # None
    /\ answer[1].array
    /\ Len(answer[1].items) = 4
    /\ \A i \in 1..Len(answer[1].items) :
           LET o == answer[1].items[i]
           IN  /\ ~o.null
               /\ o.name # None /\ o.name[1] # << >>
               /\ o.content # None /\ o.content[1] # << >>

\* C9: a POST /question whose answer is not 4 well-formed options (a null
\* item included) answers 400 and writes no Question record.
C9_BadAnswerIs400 ==
    [][ (last'.kind = "question" /\ ~WellFormedAnswer(last'.body.answer))
        => last'.status = 400 /\ questions' = questions ]_vars

\* C10: a POST /question with title, content and 4 well-formed options
\* creates one record holding the submitted title, content, answer (same
\* elements, same order) and correctAnswer, and answers with that record
\* and its identifier, whatever correctAnswer names.
C10_QuestionStored ==
    [][ ( /\ last'.kind = "question"
          /\ WellFormedAnswer(last'.body.answer)
          /\ last'.body.title # None
          /\ last'.body.content # None )
        => /\ last'.status = 201
           /\ Len(questions') = Len(questions) + 1
           /\ LET row == questions'[Len(questions')]
                  body == last'.body
              IN  /\ SubSeq(questions', 1, Len(questions)) = questions
                  /\ row.title = body.title[1]
                  /\ row.content = body.content[1]
                  /\ row.answer = body.answer[1].items
                  /\ body.correctAnswer # None
                     => /\ "correctAnswer" \in DOMAIN row
                        /\ row.correctAnswer = body.correctAnswer[1]
                  /\ last'.question = row
                  /\ row.id \notin Ids(questions) ]_vars

\* C11: whenever a store call or an identity-provider call of a handler
\* fails, the request is answered with status 500, and no request is left
\* without a response.
C11_FailureIs500 ==
    fault # NoFault => last.kind # "none" /\ last.status = 500

\* C12: every error response has status 400, 404 or 500 and a JSON body
\* {error: string} or {message: string}, the response of POST /upload-image
\* without a file included.
C12_ErrorShape ==
    (last.kind # "none" /\ last.status >= 400)
    => /\ last.status \in { 400, 404, 500 }
       /\ last.shape \in { "error", "message" }

\* a path segment that is an integer: an optional sign and digits only
IsIntegerText(seg) ==
    LET first == IF Len(seg) > 0 /\ seg[1] = "-" THEN 2 ELSE 1
    IN  /\ first <= Len(seg)
        /\ \A i \in first..Len(seg) : DigitValue(seg[i]) >= 0

\* C13: a DELETE whose path segment is not an integer is answered 400 and
\* deletes no exam.
C13_NonIntegerIs400 ==
    [][ (last'.kind = "delete" /\ ~IsIntegerText(last'.seg))
        => last'.status = 400 /\ exams' = exams ]_vars

\* C14: a step of GET /exams, GET /export/exams or GET /export/exams/csv,
\* whether it ends in success or in 500, leaves the Exam and Question
\* tables and their id sequences as they were.
C14_ReadsOnly ==
    [][ (lst' # lst \/ xls' # xls \/ last'.kind \in { "list", "xlsx", "csv" })
        => /\ exams' = exams
           /\ questions' = questions
           /\ serial' = serial
           /\ qserial' = qserial ]_vars

C14_Witness ==
    /\ last.kind = "list"
    /\ last.status = 500
    /\ fault = "store"
    /\ Len(exams) >= 2

\* the ids a where clause built by the listing denotes
Denoted(w) ==
    CASE w.kind = "in" -> w.ids
      [] w.kind = "eq" -> { w.id }

\* C15: the filtered listing is not atomic.  The paged read returns no exam
\* outside the ids resolved by the first read and the response carries what
\* the paged read returned, so an exam that matches the filter and was
\* created after the first read is omitted although it is in the store when
\* the response is sent and would fit in the page.
C15_LateExamOmitted ==
    /\ [][ (lst.pc = "page" /\ lst'.pc = "count" /\ Truthy(lst.filter))
           => \A i \in 1..Len(exams) :
                  exams[i].id \notin Denoted(lst.where)
                  => exams[i] \notin Range(lst'.items) ]_vars
    /\ [][ (lst.pc = "count" /\ last'.kind = "list")
           => last'.items = lst.items ]_vars

\* a first page that omits a stored exam matching the filter although it has
\* room left; no such response exists when requests run one at a time
C15_Witness ==
    /\ last.kind = "list"
    /\ Truthy(last.filter)
    /\ PageNumber(last.page) = 1
    /\ Len(last.items) < PageSize(last.limit)
    /\ \E i \in 1..Len(exams) :
           /\ ExamMatches(exams[i], last.filter[1])
           /\ exams[i] \notin Range(last.items)

\* the listing between its two reads, with a stored exam that matches the
\* filter and is not among the resolved ids
C15_Between ==
    /\ lst.pc = "page"
    /\ Truthy(lst.filter)
    /\ lst.where.kind = "in"
    /\ \E i \in 1..Len(exams) :
           /\ ExamMatches(exams[i], lst.filter[1])
           /\ exams[i].id \notin lst.where.ids

\* C16: with the store available, every DELETE of an id is answered 200 by
\* the one request that removes the exam and 404 by every other, also by a
\* request whose existence check ran before another request's delete and
\* whose own delete ran after it.
C16_DeleteIs200Or404 ==
    last.kind = "delete" => last.status \in { 200, 404 }

\* C17: under any interleaving with creations and deletions, every exam in
\* the items of a listing with a non-empty filter text contains the text in
\* its name, description or venue.
C17_ItemsMatch ==
    (last.kind = "list" /\ Truthy(last.filter))
    => \A i \in 1..Len(last.items) :
           ExamMatches(last.items[i], last.filter[1])

C19_DistinctNames ==
    [][ (last'.kind = "upload" /\ last'.status = 200)
        => last'.filename \notin disk ]_vars

====
